---- MODULE Spec2Model ----
(***************************************************************************)
(* Quantum metric learning tutorial (ants/bees, PCA variant):              *)
(* tutorial_embedding_generalization_antbee_pca.ipynb.                     *)
(*                                                                         *)
(* The notebook is one sequential script.  Modelled here:                  *)
(*   - the embedding ansatz (QAOAEmbedding and its two Hamiltonians) as    *)
(*     the ordered list of gates it queues;                                *)
(*   - swap_test / overlaps / cost as pure functions over exact rationals  *)
(*     (the notebook computes them in 64-bit floats: rounding is not       *)
(*     modelled);                                                          *)
(*   - predict as a step machine (one query, one reference draw, the       *)
(*     normalisation, the sign test), and the metrics computed from the    *)
(*     two calls of cell 18.                                               *)
(*                                                                         *)
(* The state-vector simulation behind swap_test is PennyLane's, not the    *)
(* notebook's.  The state an embedding circuit prepares for a projected    *)
(* point is drawn in Init from a small set of unit vectors (sim), and the  *)
(* swap test returns the squared inner product of the two prepared states, *)
(* which is what <Z> on the ancilla of a swap test measures.               *)
(*                                                                         *)
(* Further down:                                                           *)
(*   - the training cells (initial bundle, the loop of 400 optimizer       *)
(*     steps, the two output files), alone and as two runs side by side;   *)
(*   - swap_test as the operations it queues, run gate by gate on an exact *)
(*     state vector for angles that are whole quarter turns;               *)
(*   - overlaps called on rows of the wrong length.                        *)
(***************************************************************************)
EXTENDS Integers, Sequences, FiniteSets, TLC

VARIABLES
    X, Y, X_val, Y_val,          \* the four loaded tables
    pars,                        \* the parameter bundle in use
    sim,                         \* projected point -> prepared state
    pc, err,                     \* predict: position, raised exception
    n_samples, pred_low, pred_high, choice,
    i, s, x_new, prediction, pred,
    truepos, falseneg, falsepos, trueneg,
    draws,                       \* reference draws of the current query
    ret,                         \* tallies returned so far
    totals, metrics,             \* cell 18 after the two calls
    batch_size, A_batch, B_batch,
    ov_out,                      \* aa, bb, ab of the last cost call
    cost_out, cost_args, cost_prev, swap_log,
    e_features, e_weights, e_wires, circuit,
    t_pc, t_i,                   \* training cells: position, loop index
    init_pars, aliased,          \* init_pars; is pars the same object?
    selectA, selectB,            \* indices drawn in this iteration
    closure,                     \* batch the stepped cost is closed over
    n_steps,                     \* optimizer.step calls made so far
    thetas_txt, x1x2_txt,        \* the two output files
    rng,                         \* numpy's global generator: <<seed, drawn>>
    accumulation,                \* the optimizer's running average
    run2,                        \* a second run of the training cells
    sw_weights, sw_x1, sw_x2,    \* a bundle and two rows for one swap test
    sw_circuit, sw_out,          \* the operations queued, the value returned
    sw_state, sw_pos,            \* the device: amplitudes, operations applied
    ev_weights, ev_X1, ev_X2,    \* arguments of a call of overlaps
    ev_idx, ev_sum, ev_log,      \* pairs done, overlap so far, swap tests run
    ev_status, ev_out            \* where the call is, the value returned

dataVars == <<X, Y, X_val, Y_val, pars, sim>>
predVars == <<pc, err, n_samples, pred_low, pred_high, choice, i, s, x_new,
              prediction, pred, truepos, falseneg, falsepos, trueneg, draws,
              ret, totals, metrics>>
costVars == <<batch_size, A_batch, B_batch, ov_out, cost_out, cost_args,
              cost_prev, swap_log>>
embVars == <<e_features, e_weights, e_wires, circuit>>
trainVars == <<t_pc, t_i, init_pars, aliased, selectA, selectB, closure,
               n_steps, thetas_txt, x1x2_txt, rng, accumulation>>
twinVars == <<run2>>
swapVars == <<sw_weights, sw_x1, sw_x2, sw_circuit, sw_out, sw_state,
              sw_pos>>
evalVars == <<ev_weights, ev_X1, ev_X2, ev_idx, ev_sum, ev_log, ev_status,
              ev_out>>
lateVars == <<trainVars, twinVars, swapVars, evalVars>>
vars == <<dataVars, predVars, costVars, embVars, lateVars>>

(***************************************************************************)
(* Bounds of the model.                                                    *)
(***************************************************************************)
MaxSamples == 2
MaxIdx == 3
MaxBatch == 2
MaxLayers == 2
MaxWires == 3

(***************************************************************************)
(* Exact rationals <<numerator, denominator>>, denominator > 0, reduced.   *)
(***************************************************************************)
Abs(n) == IF n < 0 THEN -n ELSE n

RECURSIVE GCD(_, _)
GCD(a, b) == IF b = 0 THEN a ELSE GCD(b, a % b)

Rat(n, d) ==
    LET g == GCD(Abs(n), Abs(d))
        sg == IF d < 0 THEN -1 ELSE 1
    IN  IF g = 0 THEN <<0, 1>> ELSE <<sg * (n \div g), sg * (d \div g)>>

RInt(n) == <<n, 1>>
RAdd(a, b) == Rat(a[1] * b[2] + b[1] * a[2], a[2] * b[2])
RSub(a, b) == Rat(a[1] * b[2] - b[1] * a[2], a[2] * b[2])
RMul(a, b) == Rat(a[1] * b[1], a[2] * b[2])
RScale(k, a) == Rat(k * a[1], a[2])
RDivInt(a, k) == Rat(a[1], a[2] * k)
RLt(a, b) == a[1] * b[2] < b[1] * a[2]
RLe(a, b) == a[1] * b[2] <= b[1] * a[2]

Range(q) == {q[k] : k \in 1..Len(q)}

(***************************************************************************)
(* Data.  Feature rows have four columns (the printed shapes, (n, 4)).     *)
(***************************************************************************)
F1 == <<1, 0, 0, 0>>
F2 == <<0, 1, 0, 0>>
F3 == <<1, 1, 0, 0>>
F4 == <<1, 0, 1, 0>>
Feat == {F1, F2, F3, F4}

\* X[Y == label]: the rows of tbl whose label is lab, in order.
RECURSIVE ClassRows(_, _, _)
ClassRows(tbl, labels, lab) ==
    IF tbl = <<>> THEN <<>>
    ELSE IF Head(labels) = lab
         THEN <<Head(tbl)>> \o ClassRows(Tail(tbl), Tail(labels), lab)
         ELSE ClassRows(Tail(tbl), Tail(labels), lab)

A == ClassRows(X, Y, -1)

\* (mutant) B = X[Y == -1]
RowsLabelledMinusOne == ClassRows(X, Y, -1)

B == ClassRows(X, Y, 1)
A_val == ClassRows(X_val, Y_val, -1)
B_val == ClassRows(X_val, Y_val, 1)

(***************************************************************************)
(* Parameter bundle: pars[1] is the linear layer (2 x 4), pars[2] the      *)
(* ansatz weights (4 x 3 in the notebook).                                 *)
(***************************************************************************)
LinearLayers ==
    { << <<1, 0, 0, 0>>, <<0, 1, 0, 0>> >>,
      << <<1, 1, 1, 0>>, <<0, 0, 0, 1>> >> }

QWeights == { << <<1, 2, 3>>, <<4, 5, 6>> >> }

\* linear_layer @ x
Dot(u, v) ==
    LET RECURSIVE D(_)
        D(k) == IF k = 0 THEN 0 ELSE D(k - 1) + u[k] * v[k]
    IN  D(Len(u))

MatVec(M, x) == [r \in 1..Len(M) |-> Dot(M[r], x)]

(***************************************************************************)
(* The simulated swap test.                                                *)
(***************************************************************************)
StateVecs == {<<5, 0>>, <<0, 5>>, <<3, 4>>}

ProjPts(W, tables) == {MatVec(W, x) : x \in UNION {Range(t) : t \in tables}}

\* <Z> on the ancilla after H, CSWAPs, H: |<psi(x1)|psi(x2)>|^2.
InnerSq(u, v) == Rat(Dot(u, v) * Dot(u, v), Dot(u, u) * Dot(v, v))

swap_test(q_weights, x1, x2) == InnerSq(sim[x1], sim[x2])

(***************************************************************************)
(* overlaps: the two nested loops, in order, over index pairs.             *)
(***************************************************************************)
\* (mutant) pairs of equal index are skipped
LoopPairsNoSelf(X1, X2) ==
    SelectSeq([k \in 1..(Len(X1) * Len(X2)) |->
                  <<((k - 1) \div Len(X2)) + 1, ((k - 1) % Len(X2)) + 1>>],
              LAMBDA p : p[1] # p[2])

\* for x1 in X1: for x2 in X2: the k-th iteration is pair LoopPairs[k].
LoopPairs(X1, X2) ==
    [k \in 1..(Len(X1) * Len(X2)) |->
        <<((k - 1) \div Len(X2)) + 1, ((k - 1) % Len(X2)) + 1>>]

\* What one iteration hands to swap_test.
SwapArgs(weights, X1, X2, ij) ==
    [i |-> ij[1], j |-> ij[2], q |-> weights[2],
     w_x1 |-> MatVec(weights[1], X1[ij[1]]),
     w_x2 |-> MatVec(weights[1], X2[ij[2]])]

SwapCalls(weights, X1, X2) ==
    LET lp == LoopPairs(X1, X2)
    IN  [k \in 1..Len(lp) |-> SwapArgs(weights, X1, X2, lp[k])]

\* (mutant) "overlap = swap_test(...)": only the last pair is kept
OverlapLast(weights, X1, X2) ==
    LET calls == SwapCalls(weights, X1, X2)
    IN  IF Len(calls) = 0 THEN RInt(0)
        ELSE swap_test(calls[Len(calls)].q, calls[Len(calls)].w_x1,
                       calls[Len(calls)].w_x2)

\* overlap = 0; overlap += swap_test(...) once per iteration.
OverlapSum(weights, X1, X2) ==
    LET calls == SwapCalls(weights, X1, X2)
        RECURSIVE Acc(_)
        Acc(k) ==
            IF k = 0 THEN RInt(0)
            ELSE RAdd(Acc(k - 1),
                      swap_test(calls[k].q, calls[k].w_x1, calls[k].w_x2))
    IN  Acc(Len(calls))

overlaps(weights, X1, X2) ==
    RDivInt(OverlapSum(weights, X1, X2), Len(X1) * Len(X2))

(***************************************************************************)
(* cost                                                                    *)
(***************************************************************************)
\* (mutant) the cross term enters with the wrong sign
d_hsPlus(aa, bb, ab) == RAdd(RScale(2, ab), RAdd(aa, bb))

\* d_hs = -2 * ab + (aa + bb)
d_hs(aa, bb, ab) == RAdd(RScale(-2, ab), RAdd(aa, bb))

CostOf(aa, bb, ab) == RSub(RInt(1), RMul(<<1, 2>>, d_hs(aa, bb, ab)))

cost(weights, Ab, Bb) ==
    CostOf(overlaps(weights, Ab, Ab), overlaps(weights, Bb, Bb),
           overlaps(weights, Ab, Bb))

(***************************************************************************)
(* The embedding ansatz: the gates each function queues, in order.         *)
(* ref names the entry an angle is read from, with the code's 0-based      *)
(* indices.                                                                *)
(***************************************************************************)
Gate(g, ws, angle, kind, r, c) ==
    [gate |-> g, wires |-> ws, angle |-> angle, ref |-> <<kind, r, c>>]

feature_encoding_hamiltonian(features, wires) ==
    [idx \in 1..Len(wires) |->
        Gate("RX", <<wires[idx]>>, features[idx], "features", 0, idx - 1)]

\* (mutant) weights[l, idx] instead of weights[l, idx + 1]
LocalFieldRefSame(idx) == idx

\* The column of the local field of position idx: weights[l, idx + 1].
LocalFieldRef(idx) == idx + 1

ising_hamiltonian(weights, wires, l) ==
    << Gate("CNOT", <<wires[2], wires[1]>>, 0, "none", 0, 0),
       Gate("RZ", <<wires[1]>>, weights[l + 1][1], "weights", l, 0),
       Gate("CNOT", <<wires[2], wires[1]>>, 0, "none", 0, 0) >>
    \o [k \in 1..Len(wires) |->
          Gate("RY", <<wires[k]>>, weights[l + 1][LocalFieldRef(k - 1) + 1],
               "weights", l, LocalFieldRef(k - 1))]

QAOALayers(features, weights, wires) ==
    LET RECURSIVE Rep(_)
        Rep(n) ==
            IF n = 0 THEN <<>>
            ELSE Rep(n - 1)
                 \o feature_encoding_hamiltonian(features, wires)
                 \o ising_hamiltonian(weights, wires, n - 1)
    IN  Rep(Len(weights))

QAOAEmbedding(features, weights, wires) ==
    QAOALayers(features, weights, wires)
    \o feature_encoding_hamiltonian(features, wires)

(***************************************************************************)
(* Initial values of each group of variables.                              *)
(***************************************************************************)
\* The tables are loaded, the bundle is drawn, and the simulator is fixed
\* for the bundle: every projected row gets the state its circuit prepares.
LoadData(Xs, Ys, Xv, Yv) ==
    /\ X = Xs /\ Y = Ys /\ X_val = Xv /\ Y_val = Yv
    /\ pars \in {<<W, q>> : W \in LinearLayers, q \in QWeights}
    /\ sim \in [ProjPts(pars[1], {Xs, Xv}) -> StateVecs]

PredIdle ==
    /\ pc = "idle" /\ err = "none"
    /\ n_samples = 0 /\ pred_low = 0 /\ pred_high = 0 /\ choice = 0
    /\ i = 0 /\ s = 0 /\ x_new = <<>> /\ prediction = RInt(0) /\ pred = ""
    /\ truepos = 0 /\ falseneg = 0 /\ falsepos = 0 /\ trueneg = 0
    /\ draws = <<>> /\ ret = <<>>
    /\ totals = <<>> /\ metrics = [status |-> "unset"]

CostIdle ==
    /\ A_batch = <<>> /\ B_batch = <<>>
    /\ ov_out = <<>> /\ cost_out = <<>> /\ cost_args = <<>>
    /\ cost_prev = <<>> /\ swap_log = <<>>

EmbIdle ==
    /\ e_features = <<>> /\ e_weights = <<>> /\ e_wires = <<>>
    /\ circuit = <<>>

TrainIdle ==
    /\ t_pc = "off" /\ t_i = 0
    /\ init_pars = <<>> /\ aliased = FALSE
    /\ selectA = <<>> /\ selectB = <<>> /\ closure = <<>>
    /\ n_steps = 0
    /\ thetas_txt = <<>> /\ x1x2_txt = <<>>
    /\ rng = <<>> /\ accumulation = <<>>

SwapIdle ==
    /\ sw_weights = <<>> /\ sw_x1 = <<>> /\ sw_x2 = <<>>
    /\ sw_circuit = <<>> /\ sw_out = <<>>
    /\ sw_state = <<>> /\ sw_pos = 0

EvalIdle ==
    /\ ev_weights = <<>> /\ ev_X1 = <<>> /\ ev_X2 = <<>>
    /\ ev_idx = 0 /\ ev_sum = RInt(0) /\ ev_log = <<>>
    /\ ev_status = "idle" /\ ev_out = <<>>

LateIdle == TrainIdle /\ run2 = <<>> /\ SwapIdle /\ EvalIdle

(***************************************************************************)
(* predict(n_samples, pred_low, pred_high, choice), step by step.          *)
(***************************************************************************)
ValRows(ch) == IF ch = 0 THEN A_val ELSE B_val

\* y = Y[sample_index]
SampleLabel(sample_index) == Y[sample_index + 1]

\* x = X[sample_index]
SampleRow(sample_index) == X[sample_index + 1]

\* (mutant) the accumulator is not reset between queries
PredictionCarry(prev) == prev

\* prediction = 0 at the start of every query
PredictionInit(prev) == RInt(0)

\* (mutant) the divisor is one short
NormalizerMinusOne(n) == n - 1

\* prediction / n_samples
Normalizer(n) == n

\* (mutant) a score of exactly zero counts as negative
IsBeeOrZero(p) == RLe(p, RInt(0))

\* if prediction < 0: "Bee"
IsBee(p) == RLt(p, RInt(0))

\* (mutant) a class-A query predicted "Ant" is booked as a true negative
CounterAntIsTrueNeg(ch, bee) ==
    IF bee THEN (IF ch = 0 THEN "truepos" ELSE "falsepos") ELSE "trueneg"

\* (mutant) the two outcomes of a class-A query are exchanged
CounterClassAFlipped(ch, bee) ==
    IF bee THEN (IF ch = 0 THEN "falseneg" ELSE "falsepos")
    ELSE (IF ch = 0 THEN "truepos" ELSE "trueneg")

\* The counter a classified query increments.
Counter(ch, bee) ==
    IF bee THEN (IF ch = 0 THEN "truepos" ELSE "falsepos")
    ELSE (IF ch = 0 THEN "falseneg" ELSE "trueneg")

\* Entering the function: the four counters are set to 0, the loop starts
\* at pred_low.
CallPredict(n, lo, hi, ch) ==
    /\ pc = "idle"
    /\ n_samples' = n /\ pred_low' = lo /\ pred_high' = hi /\ choice' = ch
    /\ truepos' = 0 /\ falseneg' = 0 /\ falsepos' = 0 /\ trueneg' = 0
    /\ i' = lo /\ s' = 0 /\ pred' = "" /\ prediction' = RInt(0)
    /\ draws' = <<>> /\ x_new' = <<>>
    /\ pc' = "loop"
    /\ UNCHANGED <<err, ret, totals, metrics>>
    /\ UNCHANGED <<dataVars, costVars, embVars, lateVars>>

\* Any call of the evaluator.
Call ==
    /\ ret = <<>>
    /\ \E n \in 0..MaxSamples, lo \in 0..MaxIdx, hi \in 0..MaxIdx, ch \in {0, 1} :
          CallPredict(n, lo, hi, ch)

\* Cell 18: predict(20, 0, len(A_val), 0) has returned; the second call is
\* predict(20, 0, len(B_val), 1).
FirstCallOfCell ==
    /\ Len(ret) = 1
    /\ pred_low = 0 /\ pred_high = Len(A_val) /\ choice = 0 /\ n_samples >= 1

CallB ==
    /\ FirstCallOfCell
    /\ CallPredict(n_samples, 0, Len(B_val), 1)

\* for i in range(pred_low, pred_high): pick the query row, reset the
\* accumulator.  Indexing past the table raises IndexError.
NextQuery ==
    /\ pc = "loop"
    /\ IF i >= pred_high
       THEN /\ pc' = "return"
            /\ UNCHANGED <<err, x_new, prediction, pred, s, draws>>
       ELSE IF i >= Len(ValRows(choice))
       THEN /\ pc' = "error" /\ err' = "IndexError"
            /\ pred' = ""
            /\ UNCHANGED <<x_new, prediction, s, draws>>
       ELSE /\ pc' = "draw"
            /\ pred' = ""
            /\ x_new' = ValRows(choice)[i + 1]
            /\ prediction' = PredictionInit(prediction)
            /\ s' = 0 /\ draws' = <<>>
            /\ UNCHANGED err
    /\ UNCHANGED <<n_samples, pred_low, pred_high, choice, i, truepos,
                   falseneg, falsepos, trueneg, ret, totals, metrics>>
    /\ UNCHANGED <<dataVars, costVars, embVars, lateVars>>

\* for s in range(n_samples): one reference draw from the training pool.
Draw ==
    /\ pc = "draw" /\ s < n_samples
    /\ \E sample_index \in 0..(Len(X) - 1) :
          LET x == SampleRow(sample_index)
              y == SampleLabel(sample_index)
              ov == overlaps(pars, <<x>>, <<x_new>>)
          IN  /\ prediction' = RAdd(prediction, RScale(y, ov))
              /\ draws' = Append(draws, [sample_index |-> sample_index,
                                         x |-> x, y |-> y, overlap |-> ov])
    /\ s' = s + 1
    /\ UNCHANGED <<pc, err, n_samples, pred_low, pred_high, choice, i, x_new,
                   pred, truepos, falseneg, falsepos, trueneg, ret, totals,
                   metrics>>
    /\ UNCHANGED <<dataVars, costVars, embVars, lateVars>>

\* prediction = prediction / n_samples
Normalize ==
    /\ pc = "draw" /\ s >= n_samples
    /\ IF Normalizer(n_samples) = 0
       THEN /\ pc' = "error" /\ err' = "ZeroDivisionError"
            /\ UNCHANGED prediction
       ELSE /\ pc' = "sign"
            /\ prediction' = RDivInt(prediction, Normalizer(n_samples))
            /\ UNCHANGED err
    /\ UNCHANGED <<n_samples, pred_low, pred_high, choice, i, s, x_new, pred,
                   truepos, falseneg, falsepos, trueneg, draws, ret, totals,
                   metrics>>
    /\ UNCHANGED <<dataVars, costVars, embVars, lateVars>>

\* The sign test and the confusion-matrix bookkeeping.
Sign ==
    /\ pc = "sign"
    /\ LET bee == IsBee(prediction)
           c == Counter(choice, bee)
       IN  /\ pred' = IF bee THEN "Bee" ELSE "Ant"
           /\ truepos' = IF c = "truepos" THEN truepos + 1 ELSE truepos
           /\ falsepos' = IF c = "falsepos" THEN falsepos + 1 ELSE falsepos
           /\ falseneg' = IF c = "falseneg" THEN falseneg + 1 ELSE falseneg
           /\ trueneg' = IF c = "trueneg" THEN trueneg + 1 ELSE trueneg
    /\ i' = i + 1
    /\ pc' = "loop"
    /\ UNCHANGED <<err, n_samples, pred_low, pred_high, choice, s, x_new,
                   prediction, draws, ret, totals, metrics>>
    /\ UNCHANGED <<dataVars, costVars, embVars, lateVars>>

\* return truepos, falseneg, falsepos, trueneg
Return ==
    /\ pc = "return"
    /\ ret' = Append(ret, <<truepos, falseneg, falsepos, trueneg>>)
    /\ pc' = "idle"
    /\ UNCHANGED <<err, n_samples, pred_low, pred_high, choice, i, s, x_new,
                   prediction, pred, truepos, falseneg, falsepos, trueneg,
                   draws, totals, metrics>>
    /\ UNCHANGED <<dataVars, costVars, embVars, lateVars>>

(***************************************************************************)
(* Cell 18 after the two calls: totals and the derived metrics, computed   *)
(* in the order of the cell.  A zero denominator raises ZeroDivisionError  *)
(* at the first division that meets one, and the rest is not computed.     *)
(***************************************************************************)
Totals(t1, t2) == [k \in 1..4 |-> t1[k] + t2[k]]

MetricsOf(t) ==
    LET tp == t[1]
        fn == t[2]
        fp == t[3]
        tn == t[4]
        raise(at) == [status |-> "ZeroDivisionError", at |-> at]
    IN  IF tp + fp = 0 THEN raise("precision")
        ELSE IF tp + fn = 0 THEN raise("recall")
        ELSE IF tp + fn + fp + tn = 0 THEN raise("accuracy")
        ELSE IF tn + fp = 0 THEN raise("specificity")
        ELSE LET precision == Rat(tp, tp + fp)
                 recall == Rat(tp, tp + fn)
             IN  IF RAdd(precision, recall) = RInt(0) THEN raise("f1")
                 ELSE [status |-> "ok", at |-> "",
                       precision |-> precision,
                       recall |-> recall,
                       accuracy |-> Rat(tp + tn, tp + fn + fp + tn),
                       specificity |-> Rat(tn, tn + fp),
                       f1 |-> RMul(RScale(2, RMul(precision, recall)),
                                   <<RAdd(precision, recall)[2],
                                     RAdd(precision, recall)[1]>>)]

Metrics ==
    /\ pc = "idle" /\ Len(ret) = 2
    /\ totals' = Totals(ret[1], ret[2])
    /\ metrics' = MetricsOf(totals')
    /\ pc' = "end"
    /\ UNCHANGED <<err, n_samples, pred_low, pred_high, choice, i, s, x_new,
                   prediction, pred, truepos, falseneg, falsepos, trueneg,
                   draws, ret>>
    /\ UNCHANGED <<dataVars, costVars, embVars, lateVars>>

Init ==
    /\ LoadData(<<F1, F2>>, <<-1, 1>>, <<F3, F1, F2>>, <<-1, 1, -1>>)
    /\ PredIdle
    /\ batch_size = 0 /\ CostIdle
    /\ EmbIdle
    /\ LateIdle

Next ==
    \/ Call
    \/ CallB
    \/ NextQuery
    \/ Draw
    \/ Normalize
    \/ Sign
    \/ Return
    \/ Metrics

Spec == Init /\ [][Next]_vars

(***************************************************************************)
(* Specification SpecCost: the training loop's batch sampling and the      *)
(* evaluation of cost on the sampled batch.  Nothing of an evaluation is   *)
(* kept by the program, so a new batch starts from a clean slate; a batch  *)
(* is drawn at the top of each iteration, before the cost is evaluated.    *)
(***************************************************************************)
\* selectA / selectB: batch_size indices, with replacement, one per class.
SampleBatch ==
    /\ A_batch = <<>> \/ cost_args # <<>>
    /\ LET rowsA == A
           rowsB == B
       IN  \E drawA \in [1..batch_size -> 0..(Len(rowsA) - 1)],
              drawB \in [1..batch_size -> 0..(Len(rowsB) - 1)] :
              /\ A_batch' = [k \in 1..batch_size |-> rowsA[drawA[k] + 1]]
              /\ B_batch' = [k \in 1..batch_size |-> rowsB[drawB[k] + 1]]
    /\ ov_out' = <<>> /\ cost_out' = <<>> /\ cost_args' = <<>>
    /\ cost_prev' = <<>> /\ swap_log' = <<>>
    /\ UNCHANGED batch_size
    /\ UNCHANGED <<dataVars, predVars, embVars, lateVars>>

\* One evaluation of cost(pars, A=A_batch, B=B_batch).
EvalCost ==
    /\ A_batch # <<>> /\ B_batch # <<>>
    /\ ov_out' = << overlaps(pars, A_batch, A_batch),
                    overlaps(pars, B_batch, B_batch),
                    overlaps(pars, A_batch, B_batch) >>
    /\ swap_log' = << SwapCalls(pars, A_batch, A_batch),
                      SwapCalls(pars, B_batch, B_batch),
                      SwapCalls(pars, A_batch, B_batch) >>
    /\ cost_out' = cost(pars, A_batch, B_batch)
    /\ cost_args' = <<pars, A_batch, B_batch>>
    /\ cost_prev' = IF cost_args = <<>> THEN <<>> ELSE <<cost_args, cost_out>>
    /\ UNCHANGED <<batch_size, A_batch, B_batch>>
    /\ UNCHANGED <<dataVars, predVars, embVars, lateVars>>

InitCost ==
    /\ LoadData(<<F1, F2, F3, F4>>, <<-1, 1, -1, 1>>, <<>>, <<>>)
    /\ PredIdle
    /\ batch_size \in 1..MaxBatch /\ CostIdle
    /\ EmbIdle
    /\ LateIdle

NextCost ==
    \/ SampleBatch
    \/ EvalCost

SpecCost == InitCost /\ [][NextCost]_vars

(***************************************************************************)
(* Specification SpecEmbed: QAOAEmbedding applied to a feature vector, a   *)
(* weight tensor of L rows and n + 1 columns, and a register of n          *)
(* positions.                                                              *)
(***************************************************************************)
Registers(n) == {[k \in 1..n |-> off + k] : off \in {0, n}}

WeightTensors(L, n) ==
    {[l \in 1..L |-> [c \in 1..(n + 1) |-> base * l + c]] : base \in {10, 20}}

Embed ==
    /\ circuit = <<>>
    /\ circuit' = QAOAEmbedding(e_features, e_weights, e_wires)
    /\ UNCHANGED <<e_features, e_weights, e_wires>>
    /\ UNCHANGED <<dataVars, predVars, costVars, lateVars>>

InitEmbed ==
    /\ X = <<>> /\ Y = <<>> /\ X_val = <<>> /\ Y_val = <<>>
    /\ pars = <<>> /\ sim = <<>>
    /\ PredIdle
    /\ batch_size = 0 /\ CostIdle
    /\ \E n \in 2..MaxWires, L \in 0..MaxLayers :
          /\ e_features \in [1..n -> {7, 8}]
          /\ e_weights \in WeightTensors(L, n)
          /\ e_wires \in Registers(n)
    /\ circuit = <<>>
    /\ LateIdle

NextEmbed == Embed

SpecEmbed == InitEmbed /\ [][NextEmbed]_vars

(***************************************************************************)
(* The training cells: the initial parameters (cell 8), the optimisation   *)
(* loop (cell 9) and the two output files (cell 10).                       *)
(*                                                                         *)
(* np.random.normal and the gradient step are numpy's and PennyLane's: an  *)
(* initial bundle and the bundle optimizer.step returns are drawn from     *)
(* Bundles, a small set of bundles of the shapes the notebook asks for.    *)
(* optimizer.step returns new arrays; whether the name pars still refers   *)
(* to the object init_pars refers to is tracked in aliased.                *)
(***************************************************************************)
n_features == 2

n_qubits == 2 * n_features + 1

NumIterations == 400

\* size=(4, 3) and size=(2, 4) of cell 8.
QuantumShape == <<4, 3>>

ClassicalShapeSquare == <<2, 2>>

ClassicalShape == <<2, 4>>

ParamVals == {0, 1}

ParamMatrix(shape, v) ==
    [r \in 1..shape[1] |-> [c \in 1..shape[2] |-> v + r + c]]

\* init_pars = [init_pars_classical, init_pars_quantum]
Bundles ==
    {<<ParamMatrix(ClassicalShape, v), ParamMatrix(QuantumShape, v)>> :
        v \in ParamVals}

F5 == <<0, 0, 1, 0>>

F6 == <<0, 0, 0, 1>>

\* np.random.seed(seed=123): the generator's state is the seed and the
\* number of values drawn since; what it held before (entropy) is gone.
seed == 123

Unseeded(entropy) == <<entropy, 0>>

Seeded(entropy) == <<seed, 0>>

\* What the generator may hold when the kernel starts.
Entropy == {0, 1}

\* k calls of np.random.normal / np.random.choice.
Advance(r, k) == <<r[1], r[2] + k>>

\* RMSPropOptimizer.accumulation: None (<<>>) until the first step.
AccVals == {<<0>>, <<1>>}

\* for i in range(400): the loop is over once the range is exhausted.
LoopDoneEarly(k) == k >= NumIterations - 1

LoopDone(k) == k >= NumIterations

\* range(len(A)), the population np.random.choice draws from.
IndexRange(tbl) == 0..(Len(tbl) - 1)

\* [A[s] for s in selectA]
Gather(tbl, select) == [k \in 1..Len(select) |-> tbl[select[k] + 1]]

\* pars = optimizer.step(...): what the assignment does to the two names.
RebindInPlace(new, ip, al) ==
    [pars |-> new, init_pars |-> IF al THEN new ELSE ip, aliased |-> al]

Rebind(new, ip, al) ==
    [pars |-> new, init_pars |-> ip, aliased |-> FALSE]

\* file1.write("%s\n" % item)
Line(item) == <<item, "\n">>

\* Only the rows of the first matrix of the bundle reach a file.
WriteRowsFirst(bundle, k) == [r \in 1..Len(bundle[1]) |-> Line(bundle[1][r])]

\* for item in pars[k]: file1.write(...), k counted from 0.
WriteRows(bundle, k) ==
    [r \in 1..Len(bundle[k + 1]) |-> Line(bundle[k + 1][r])]

\* Cell 8.
InitPars ==
    /\ t_pc = "uninit"
    /\ init_pars' \in Bundles
    /\ rng' = Advance(rng, 2)
    /\ t_pc' = "init"
    /\ UNCHANGED <<t_i, aliased, selectA, selectB, closure, n_steps,
                   thetas_txt, x1x2_txt, accumulation>>
    /\ UNCHANGED <<dataVars, predVars, costVars, embVars>>

\* Cell 9 up to the loop: the optimizer, batch_size, pars = init_pars.
StartTraining ==
    /\ t_pc = "init"
    /\ batch_size' = MaxBatch
    /\ pars' = init_pars
    /\ aliased' = TRUE
    /\ accumulation' = <<>>
    /\ t_i' = 0
    /\ t_pc' = "loop"
    /\ UNCHANGED <<init_pars, selectA, selectB, closure, n_steps,
                   thetas_txt, x1x2_txt, rng>>
    /\ UNCHANGED <<X, Y, X_val, Y_val, sim, predVars, embVars>>
    /\ UNCHANGED <<A_batch, B_batch, ov_out, cost_out, cost_args, cost_prev,
                   swap_log>>

\* One pass of the loop body up to the optimizer call: the two draws and
\* the two batches.
SampleTrain ==
    /\ t_pc = "loop"
    /\ ~LoopDone(t_i)
    /\ selectA' \in [1..batch_size -> IndexRange(A)]
    /\ selectB' \in [1..batch_size -> IndexRange(B)]
    /\ A_batch' = Gather(A, selectA')
    /\ B_batch' = Gather(B, selectB')
    /\ rng' = Advance(rng, 2)
    /\ closure' = <<>>
    /\ t_pc' = "step"
    /\ UNCHANGED <<t_i, init_pars, aliased, n_steps, thetas_txt, x1x2_txt,
                   accumulation>>
    /\ UNCHANGED <<dataVars, predVars, embVars>>
    /\ UNCHANGED <<batch_size, ov_out, cost_out, cost_args, cost_prev,
                   swap_log>>

\* pars = optimizer.step(lambda w: cost(w, A=A_batch, B=B_batch), pars)
Step ==
    /\ t_pc = "step"
    /\ closure' = <<A_batch, B_batch>>
    /\ \E new \in Bundles :
          LET after == Rebind(new, init_pars, aliased)
          IN  /\ pars' = after.pars
              /\ init_pars' = after.init_pars
              /\ aliased' = after.aliased
    /\ accumulation' \in AccVals
    /\ n_steps' = n_steps + 1
    /\ t_i' = t_i + 1
    /\ t_pc' = "loop"
    /\ UNCHANGED <<selectA, selectB, thetas_txt, x1x2_txt, rng>>
    /\ UNCHANGED <<X, Y, X_val, Y_val, sim, predVars, costVars, embVars>>

\* range(400) is exhausted: control leaves the loop.
LoopExit ==
    /\ t_pc = "loop"
    /\ LoopDone(t_i)
    /\ t_pc' = "stopped"
    /\ UNCHANGED <<t_i, init_pars, aliased, selectA, selectB, closure,
                   n_steps, thetas_txt, x1x2_txt, rng, accumulation>>
    /\ UNCHANGED <<dataVars, predVars, costVars, embVars>>

\* Cell 10: thetas.txt from pars[1], x1x2.txt from pars[0].
Save ==
    /\ t_pc = "stopped"
    /\ thetas_txt' = WriteRows(pars, 1)
    /\ x1x2_txt' = WriteRows(pars, 0)
    /\ t_pc' = "saved"
    /\ UNCHANGED <<t_i, init_pars, aliased, selectA, selectB, closure,
                   n_steps, rng, accumulation>>
    /\ UNCHANGED <<dataVars, predVars, costVars, embVars>>

TrainStart ==
    /\ X = <<F1, F2, F3>> /\ Y = <<-1, 1, -1>>
    /\ X_val = <<F5, F6>> /\ Y_val = <<-1, 1>>
    /\ pars = <<>> /\ sim = <<>>
    /\ PredIdle
    /\ batch_size = 0 /\ CostIdle
    /\ EmbIdle
    /\ t_pc = "uninit" /\ t_i = 0
    /\ init_pars = <<>> /\ aliased = FALSE
    /\ selectA = <<>> /\ selectB = <<>> /\ closure = <<>>
    /\ n_steps = 0
    /\ thetas_txt = <<>> /\ x1x2_txt = <<>>
    /\ \E e \in Entropy : rng = Seeded(e)
    /\ accumulation = <<>>

InitTrain == TrainStart /\ run2 = <<>> /\ SwapIdle /\ EvalIdle

NextTrain ==
    \/ InitPars /\ UNCHANGED <<twinVars, swapVars, evalVars>>
    \/ StartTraining /\ UNCHANGED <<twinVars, swapVars, evalVars>>
    \/ SampleTrain /\ UNCHANGED <<twinVars, swapVars, evalVars>>
    \/ Step /\ UNCHANGED <<twinVars, swapVars, evalVars>>
    \/ LoopExit /\ UNCHANGED <<twinVars, swapVars, evalVars>>
    \/ Save /\ UNCHANGED <<twinVars, swapVars, evalVars>>

SpecTrain == InitTrain /\ [][NextTrain]_vars

\* The notebook is a script run to its end: a cell that can run does run.
SpecTrainFair == SpecTrain /\ WF_vars(NextTrain)

(***************************************************************************)
(* Two runs of the training cells over the same tables, cell by cell.      *)
(* The first run is the one above; run2 holds the names of the second.     *)
(* numpy's generator and optimizer.step are functions of what they are     *)
(* given: the second run's draw is the first run's when the two generators *)
(* are in the same state, and the second run's step returns what the first *)
(* run's did when bundle, batches and accumulation are the same.           *)
(***************************************************************************)
TwinStart(e) ==
    [t_pc |-> "uninit", t_i |-> 0, init_pars |-> <<>>, pars |-> <<>>,
     selectA |-> <<>>, selectB |-> <<>>, A_batch |-> <<>>, B_batch |-> <<>>,
     rng |-> Seeded(e), accumulation |-> <<>>]

\* What optimizer.step is given in the first run and in the second.
StepInputs == <<pars, A_batch, B_batch, accumulation>>

StepInputs2 == <<run2.pars, run2.A_batch, run2.B_batch, run2.accumulation>>

BothInitPars ==
    /\ InitPars
    /\ run2.t_pc = "uninit"
    /\ \E ip \in Bundles :
          /\ run2.rng = rng => ip = init_pars'
          /\ run2' = [run2 EXCEPT !.init_pars = ip,
                                  !.rng = Advance(run2.rng, 2),
                                  !.t_pc = "init"]

BothStartTraining ==
    /\ StartTraining
    /\ run2.t_pc = "init"
    /\ run2' = [run2 EXCEPT !.pars = run2.init_pars,
                            !.accumulation = <<>>,
                            !.t_i = 0,
                            !.t_pc = "loop"]

BothSampleTrain ==
    /\ SampleTrain
    /\ run2.t_pc = "loop"
    /\ ~LoopDone(run2.t_i)
    /\ \E sA \in [1..batch_size -> IndexRange(A)],
          sB \in [1..batch_size -> IndexRange(B)] :
          /\ run2.rng = rng => sA = selectA' /\ sB = selectB'
          /\ run2' = [run2 EXCEPT !.selectA = sA, !.selectB = sB,
                                  !.A_batch = Gather(A, sA),
                                  !.B_batch = Gather(B, sB),
                                  !.rng = Advance(run2.rng, 2),
                                  !.t_pc = "step"]

BothStep ==
    /\ Step
    /\ run2.t_pc = "step"
    /\ \E new \in Bundles, acc \in AccVals :
          /\ StepInputs2 = StepInputs
                => new = pars' /\ acc = accumulation'
          /\ run2' = [run2 EXCEPT !.pars = new,
                                  !.accumulation = acc,
                                  !.t_i = run2.t_i + 1,
                                  !.t_pc = "loop"]

BothLoopExit ==
    /\ LoopExit
    /\ run2.t_pc = "loop"
    /\ LoopDone(run2.t_i)
    /\ run2' = [run2 EXCEPT !.t_pc = "stopped"]

BothSave ==
    /\ Save
    /\ run2.t_pc = "stopped"
    /\ run2' = [run2 EXCEPT !.t_pc = "saved"]

InitTwoRuns ==
    /\ TrainStart
    /\ \E e \in Entropy : run2 = TwinStart(e)
    /\ SwapIdle /\ EvalIdle

NextTwoRuns ==
    \/ BothInitPars /\ UNCHANGED <<swapVars, evalVars>>
    \/ BothStartTraining /\ UNCHANGED <<swapVars, evalVars>>
    \/ BothSampleTrain /\ UNCHANGED <<swapVars, evalVars>>
    \/ BothStep /\ UNCHANGED <<swapVars, evalVars>>
    \/ BothLoopExit /\ UNCHANGED <<swapVars, evalVars>>
    \/ BothSave /\ UNCHANGED <<swapVars, evalVars>>

SpecTwoRuns == InitTwoRuns /\ [][NextTwoRuns]_vars

(***************************************************************************)
(* swap_test as the operations it queues, and the device that runs them.   *)
(*                                                                         *)
(* dev is PennyLane's state-vector simulator on n_qubits wires.  It is     *)
(* modelled exactly for angles that are whole numbers of quarter turns: an *)
(* angle a of the model stands for a * pi / 2.  Amplitudes are pairs       *)
(* <<re, im>> of integers; a gate with entries in 1/sqrt(2) is applied     *)
(* with its entries times sqrt(2), so a state is kept up to one positive   *)
(* factor, which an expectation value divides out.                         *)
(***************************************************************************)
Pow2(n) ==
    LET RECURSIVE P(_)
        P(k) == IF k = 0 THEN 1 ELSE 2 * P(k - 1)
    IN  P(n)

\* Number of basis states of the device; basis state b is at index b + 1.
Dim == Pow2(n_qubits)

\* Wire 0 is the most significant bit of a basis state.
BitWeight(w) == Pow2(n_qubits - 1 - w)

Bit(b, w) == (b \div BitWeight(w)) % 2

SetBit(b, w, v) == b + (v - Bit(b, w)) * BitWeight(w)

CAdd(u, v) == <<u[1] + v[1], u[2] + v[2]>>

CMul(u, v) == <<u[1] * v[1] - u[2] * v[2], u[1] * v[2] + u[2] * v[1]>>

\* cos and sin of half the angle, a * pi / 4, times sqrt(2) when a is odd.
CosQ(a) == <<1, 1, 0, -1, -1, -1, 0, 1>>[(a % 8) + 1]

SinQ(a) == <<0, 1, 1, 1, 0, -1, -1, -1>>[(a % 8) + 1]

GateMatrix(g) ==
    LET co == CosQ(g.angle)
        si == SinQ(g.angle)
    IN  CASE g.gate = "RX" ->
               << << <<co, 0>>, <<0, -si>> >>, << <<0, -si>>, <<co, 0>> >> >>
          [] g.gate = "RY" ->
               << << <<co, 0>>, <<-si, 0>> >>, << <<si, 0>>, <<co, 0>> >> >>
          [] g.gate = "RZ" ->
               << << <<co, -si>>, <<0, 0>> >>, << <<0, 0>>, <<co, si>> >> >>
          [] g.gate = "Hadamard" ->
               << << <<1, 0>>, <<1, 0>> >>, << <<1, 0>>, <<-1, 0>> >> >>

\* A one-wire gate with matrix U on wire w.
Apply1(st, w, U) ==
    [k \in 1..Dim |->
        LET b == k - 1
            row == U[Bit(b, w) + 1]
        IN  CAdd(CMul(row[1], st[SetBit(b, w, 0) + 1]),
                 CMul(row[2], st[SetBit(b, w, 1) + 1]))]

\* The basis state a CNOT or a CSWAP maps to b.
Moved(b, g) ==
    IF Bit(b, g.wires[1]) = 0 THEN b
    ELSE IF g.gate = "CNOT"
         THEN SetBit(b, g.wires[2], 1 - Bit(b, g.wires[2]))
         ELSE SetBit(SetBit(b, g.wires[2], Bit(b, g.wires[3])),
                     g.wires[3], Bit(b, g.wires[2]))

\* The common factor 2 is dropped as often as every amplitude has it.
Reduced(state) ==
    LET RECURSIVE R(_)
        R(st) ==
            IF \A k \in 1..Dim : st[k][1] % 2 = 0 /\ st[k][2] % 2 = 0
            THEN R(SubSeq([k \in 1..Dim |->
                             <<st[k][1] \div 2, st[k][2] \div 2>>], 1, Dim))
            ELSE st
    IN  R(state)

ApplyGate(st, g) ==
    Reduced(SubSeq(IF g.gate \in {"CNOT", "CSWAP"}
                   THEN [k \in 1..Dim |-> st[Moved(k - 1, g) + 1]]
                   ELSE Apply1(st, g.wires[1], GateMatrix(g)),
                   1, Dim))

\* All wires start in |0>.
Ket0 == [k \in 1..Dim |-> IF k = 1 THEN <<1, 0>> ELSE <<0, 0>>]

Norm2(c) == c[1] * c[1] + c[2] * c[2]

\* qml.expval(qml.PauliZ(w)) in the state st.
expval(st, w) ==
    LET RECURSIVE Sum(_, _)
        Sum(k, signed) ==
            IF k = 0 THEN 0
            ELSE Sum(k - 1, signed)
                 + (IF signed THEN 1 - 2 * Bit(k - 1, w) ELSE 1) * Norm2(st[k])
    IN  Rat(Sum(Dim, TRUE), Sum(Dim, FALSE))

\* wires=[1, 2] and wires=[3, 4]
FirstRegister == <<1, 2>>

SecondRegister == <<3, 4>>

\* (mutant) the second register one position too low
CSwapWiresShifted(k) == <<0, k + 1, 2 + k>>

\* (mutant) every controlled swap on the first pair of positions
CSwapWiresFirstPair(k) == <<0, 1, 3>>

\* qml.CSWAP(wires=[0, k + 1, 2 + k + 1])
CSwapWires(k) == <<0, k + 1, 2 + k + 1>>

\* The operations swap_test queues before the measurement of PauliZ(0).
swap_test_circuit(q_weights, x1, x2) ==
    QAOAEmbedding(x1, q_weights, FirstRegister)
    \o QAOAEmbedding(x2, q_weights, SecondRegister)
    \o << Gate("Hadamard", <<0>>, 0, "none", 0, 0) >>
    \o [k \in 1..n_features |->
          Gate("CSWAP", CSwapWires(k - 1), 0, "none", 0, 0)]
    \o << Gate("Hadamard", <<0>>, 0, "none", 0, 0) >>

SwapRows == {F1, F2, F3, F4, F5, F6}

SwapBundles ==
    {<<W, q>> : W \in LinearLayers,
                q \in WeightTensors(QuantumShape[1], n_features)}

\* overlaps(weights, X1=[x1], X2=[x2]), the one pass of its two loops, up
\* to the call of swap_test: the two projections, and the operations the
\* call queues on the device.
QueueSwapTest ==
    /\ sw_circuit = <<>>
    /\ LET linear_layer == sw_weights[1]
           q_weights == sw_weights[2]
           w_x1 == MatVec(linear_layer, sw_x1)
           w_x2 == MatVec(linear_layer, sw_x2)
       IN  sw_circuit' = swap_test_circuit(q_weights, w_x1, w_x2)
    /\ sw_state' = Ket0
    /\ sw_pos' = 0
    /\ UNCHANGED <<sw_weights, sw_x1, sw_x2, sw_out>>
    /\ UNCHANGED <<dataVars, predVars, costVars, embVars, trainVars,
                   twinVars, evalVars>>

\* The device applies the next queued operation.
ApplyNext ==
    /\ sw_circuit # <<>>
    /\ sw_pos < Len(sw_circuit)
    /\ sw_state' = ApplyGate(sw_state, sw_circuit[sw_pos + 1])
    /\ sw_pos' = sw_pos + 1
    /\ UNCHANGED <<sw_weights, sw_x1, sw_x2, sw_circuit, sw_out>>
    /\ UNCHANGED <<dataVars, predVars, costVars, embVars, trainVars,
                   twinVars, evalVars>>

\* return qml.expval(qml.PauliZ(0)), added to overlap and divided by
\* len(X1) * len(X2) = 1.
Measure ==
    /\ sw_circuit # <<>>
    /\ sw_pos = Len(sw_circuit)
    /\ sw_out = <<>>
    /\ sw_out' = RDivInt(RAdd(RInt(0), expval(sw_state, 0)), 1 * 1)
    /\ UNCHANGED <<sw_weights, sw_x1, sw_x2, sw_circuit, sw_state, sw_pos>>
    /\ UNCHANGED <<dataVars, predVars, costVars, embVars, trainVars,
                   twinVars, evalVars>>

InitSwap ==
    /\ X = <<>> /\ Y = <<>> /\ X_val = <<>> /\ Y_val = <<>>
    /\ pars = <<>> /\ sim = <<>>
    /\ PredIdle
    /\ batch_size = 0 /\ CostIdle
    /\ EmbIdle
    /\ TrainIdle /\ run2 = <<>>
    /\ sw_weights \in SwapBundles
    /\ sw_x1 \in SwapRows /\ sw_x2 \in SwapRows
    /\ sw_circuit = <<>> /\ sw_out = <<>>
    /\ sw_state = <<>> /\ sw_pos = 0
    /\ EvalIdle

NextSwap ==
    \/ QueueSwapTest
    \/ ApplyNext
    \/ Measure

SpecSwap == InitSwap /\ [][NextSwap]_vars

(***************************************************************************)
(* overlaps called on rows whose length may differ from the number of      *)
(* columns of the projection matrix.  np.loadtxt returns rectangular       *)
(* tables, so the rows of one table all have the same length; X and X_val  *)
(* come from two files.  linear_layer @ x raises ValueError when the       *)
(* lengths differ: that is numpy's check, the notebook has none of its     *)
(* own.                                                                    *)
(***************************************************************************)
\* The row lengths a file may have.
RowLengths == {3, 4, 5}

\* A row of the given length: the base row cut, or continued with ones.
Widen(row, d) == [k \in 1..d |-> IF k <= Len(row) THEN row[k] ELSE 1]

\* (mutant) rows longer than the matrix is wide are accepted
DimOkAtLeast(M, x) == Len(x) >= Len(M[1])

\* linear_layer @ x is defined: the lengths agree.
DimOk(M, x) == Len(x) = Len(M[1])

\* Sequences of 1..MaxBatch rows of a table.
BatchesOf(tbl) ==
    UNION {[1..n -> Range(tbl)] : n \in 1..MaxBatch}

\* overlaps(weights, X1, X2) is called: on training rows (cost), on a
\* training row and a validation row (predict), or on validation rows
\* (the Gram matrices).
CallOverlaps ==
    /\ ev_status = "idle"
    /\ ev_weights' = pars
    /\ \E tt \in {<<X, X>>, <<X, X_val>>, <<X_val, X_val>>} :
          /\ ev_X1' \in BatchesOf(tt[1])
          /\ ev_X2' \in BatchesOf(tt[2])
    /\ ev_idx' = 0 /\ ev_sum' = RInt(0) /\ ev_log' = <<>>
    /\ ev_status' = "running"
    /\ UNCHANGED ev_out
    /\ UNCHANGED <<dataVars, predVars, costVars, embVars, trainVars,
                   twinVars, swapVars>>

\* One pass of the inner loop: the two projections, then the swap test.
PairStep ==
    /\ ev_status = "running"
    /\ ev_idx < Len(ev_X1) * Len(ev_X2)
    /\ LET ij == LoopPairs(ev_X1, ev_X2)[ev_idx + 1]
           linear_layer == ev_weights[1]
           x1 == ev_X1[ij[1]]
           x2 == ev_X2[ij[2]]
       IN  IF DimOk(linear_layer, x1) /\ DimOk(linear_layer, x2)
           THEN LET call == SwapArgs(ev_weights, ev_X1, ev_X2, ij)
                IN  /\ ev_log' = Append(ev_log, call)
                    /\ ev_sum' = RAdd(ev_sum,
                                      swap_test(call.q, call.w_x1, call.w_x2))
                    /\ ev_idx' = ev_idx + 1
                    /\ UNCHANGED ev_status
           ELSE /\ ev_status' = "ValueError"
                /\ UNCHANGED <<ev_log, ev_sum, ev_idx>>
    /\ UNCHANGED <<ev_weights, ev_X1, ev_X2, ev_out>>
    /\ UNCHANGED <<dataVars, predVars, costVars, embVars, trainVars,
                   twinVars, swapVars>>

\* mean_overlap = overlap / (len(X1) * len(X2)); return mean_overlap
ReturnOverlap ==
    /\ ev_status = "running"
    /\ ev_idx = Len(ev_X1) * Len(ev_X2)
    /\ ev_out' = RDivInt(ev_sum, Len(ev_X1) * Len(ev_X2))
    /\ ev_status' = "returned"
    /\ UNCHANGED <<ev_weights, ev_X1, ev_X2, ev_idx, ev_sum, ev_log>>
    /\ UNCHANGED <<dataVars, predVars, costVars, embVars, trainVars,
                   twinVars, swapVars>>

\* The caller goes on with the value: in the training loop the optimizer
\* returns a bundle and pars is bound to it.  After an exception the cell
\* is over and nothing of this runs.
StepAfterCost ==
    /\ ev_status = "returned"
    /\ pars' \in {<<W, ev_weights[2]>> : W \in LinearLayers}
    /\ ev_status' = "stepped"
    /\ UNCHANGED <<ev_weights, ev_X1, ev_X2, ev_idx, ev_sum, ev_log, ev_out>>
    /\ UNCHANGED <<X, Y, X_val, Y_val, sim>>
    /\ UNCHANGED <<predVars, costVars, embVars, trainVars, twinVars,
                   swapVars>>

InitDim ==
    /\ \E dX \in RowLengths, dV \in RowLengths :
          /\ X = <<Widen(F1, dX)>> /\ Y = <<-1>>
          /\ X_val = <<Widen(F2, dV)>> /\ Y_val = <<1>>
    /\ pars \in {<<W, q>> : W \in LinearLayers, q \in QWeights}
    /\ sim \in [ProjPts(pars[1], {<<F1, F2>>}) -> StateVecs]
    /\ PredIdle
    /\ batch_size = 0 /\ CostIdle
    /\ EmbIdle
    /\ TrainIdle /\ run2 = <<>> /\ SwapIdle
    /\ EvalIdle

NextDim ==
    \/ CallOverlaps
    \/ PairStep
    \/ ReturnOverlap
    \/ StepAfterCost

SpecDim == InitDim /\ [][NextDim]_vars

(***************************************************************************)
(* Properties of predict and of the metrics (specification Spec).          *)
(***************************************************************************)
Max(a, b) == IF a > b THEN a ELSE b

CounterSum == truepos + falseneg + falsepos + trueneg

InCall == pc \in {"loop", "draw", "sign", "return"}

\* The overlap of a training row with the current query, from the prepared
\* states directly.
RefOverlap(x, q) ==
    InnerSq(sim[MatVec(pars[1], x)], sim[MatVec(pars[1], q)])

\* Sum of label * overlap over the first k logged draws.
RECURSIVE DrawSum(_, _)
DrawSum(log, k) ==
    IF k = 0 THEN RInt(0)
    ELSE RAdd(DrawSum(log, k - 1), RScale(log[k].y, log[k].overlap))

\* C1 as stated: the tally a call returns has truepos + falseneg equal to
\* pred_high - pred_low for a class-A call (0 otherwise) and falsepos +
\* trueneg equal to pred_high - pred_low for a class-B call (0 otherwise).
C1_TallyIsRangeDifference ==
    (pc = "return" /\ n_samples >= 1) =>
        /\ truepos + falseneg = (IF choice = 0 THEN pred_high - pred_low ELSE 0)
        /\ falsepos + trueneg = (IF choice # 0 THEN pred_high - pred_low ELSE 0)

\* C1 amended: the number of queries evaluated is max(pred_high - pred_low,
\* 0) (an empty range when pred_high < pred_low).  The returned tally has
\* truepos + falseneg equal to it for a class-A call and falsepos + trueneg
\* for a class-B call, the other pair being 0; during the call the four
\* counters sum to the number of queries processed so far; the totals of
\* the two calls of cell 18 sum to len(A_val) + len(B_val).
C1_TallySums ==
    /\ (pc = "return" /\ n_samples >= 1) =>
          /\ truepos + falseneg =
                (IF choice = 0 THEN Max(pred_high - pred_low, 0) ELSE 0)
          /\ falsepos + trueneg =
                (IF choice # 0 THEN Max(pred_high - pred_low, 0) ELSE 0)
    /\ InCall => CounterSum = i - pred_low
    /\ pc = "end" =>
          totals[1] + totals[2] + totals[3] + totals[4]
             = Len(A_val) + Len(B_val)

\* A class-A call over two queries is about to return one true positive and
\* one false negative.
C1_Witness ==
    /\ pc = "return" /\ choice = 0 /\ n_samples >= 1
    /\ pred_high - pred_low = 2
    /\ truepos = 1 /\ falseneg = 1

\* C2: the predicted class of a query is decided by the sign of the
\* normalised score alone: negative gives "Bee" (class A), zero or positive
\* gives "Ant" (class B), and one of the two is always predicted.
C2_SignRule ==
    pred # "" =>
        /\ pred \in {"Bee", "Ant"}
        /\ (pred = "Bee") <=> (prediction[1] < 0)
        /\ (pred = "Ant") <=> (prediction[1] >= 0)

\* A query whose draws gave a score of exactly zero was predicted "Ant".
C2_Witness ==
    /\ pred = "Ant" /\ prediction = RInt(0)
    /\ Len(draws) >= 1 /\ n_samples >= 1

\* C3: classifying a query adds exactly 1 to exactly one counter, chosen by
\* the query's class and the predicted class, and leaves the other three
\* alone; within a call no counter decreases.
C3_OneCounterPerQuery ==
    [][ /\ (pc = "sign") =>
             /\ pred' \in {"Bee", "Ant"}
             /\ (choice = 0 /\ pred' = "Bee") =>
                   (truepos' = truepos + 1 /\
                    UNCHANGED <<falseneg, falsepos, trueneg>>)
             /\ (choice = 0 /\ pred' = "Ant") =>
                   (falseneg' = falseneg + 1 /\
                    UNCHANGED <<truepos, falsepos, trueneg>>)
             /\ (choice # 0 /\ pred' = "Ant") =>
                   (trueneg' = trueneg + 1 /\
                    UNCHANGED <<truepos, falseneg, falsepos>>)
             /\ (choice # 0 /\ pred' = "Bee") =>
                   (falsepos' = falsepos + 1 /\
                    UNCHANGED <<truepos, falseneg, trueneg>>)
        /\ InCall =>
             /\ truepos' >= truepos /\ falseneg' >= falseneg
             /\ falsepos' >= falsepos /\ trueneg' >= trueneg
      ]_vars

\* A class-B query was predicted "Bee" and booked as a false positive.
C3_Witness ==
    /\ pc = "loop" /\ choice = 1 /\ pred = "Bee"
    /\ falsepos = 1 /\ truepos = 0 /\ falseneg = 0 /\ trueneg = 0

\* C4: when a query's score is formed, exactly n_samples draws were made,
\* each index within the training pool, the row and the label read at the
\* same index of X and Y, the overlap that of the row with the query, and
\* the score is the sum of label * overlap over these draws divided by
\* n_samples; while drawing, the accumulator holds the sum over this
\* query's draws only.
C4_ScoreIsMeanOfDraws ==
    /\ pc \in {"draw", "sign"} =>
          /\ x_new = ValRows(choice)[i + 1]
          /\ \A k \in 1..Len(draws) :
                /\ draws[k].sample_index \in 0..(Len(X) - 1)
                /\ draws[k].x = X[draws[k].sample_index + 1]
                /\ draws[k].y = Y[draws[k].sample_index + 1]
                /\ draws[k].overlap = RefOverlap(draws[k].x, x_new)
    /\ pc = "draw" =>
          /\ Len(draws) = s /\ s <= n_samples
          /\ prediction = DrawSum(draws, Len(draws))
    /\ pc = "sign" =>
          /\ Len(draws) = n_samples
          /\ prediction = RDivInt(DrawSum(draws, n_samples), n_samples)

\* The second or a later query of a call drew the same training row twice
\* and has a non-zero score, after an earlier query with a non-zero score.
C4_Witness ==
    /\ pc = "sign" /\ n_samples = 2 /\ i > pred_low
    /\ draws[1].sample_index = draws[2].sample_index
    /\ prediction[1] # 0
    /\ truepos + falsepos >= 1

\* C5: with n_samples = 1 no division by zero is raised, the score is the
\* label times the overlap of the one drawn row, and every classified query
\* has incremented one counter.
C5_SingleSample ==
    n_samples = 1 =>
        /\ err # "ZeroDivisionError"
        /\ pc = "sign" =>
              /\ Len(draws) = 1
              /\ prediction =
                    RScale(Y[draws[1].sample_index + 1],
                           RefOverlap(X[draws[1].sample_index + 1], x_new))
        /\ pc = "loop" => CounterSum = i - pred_low

\* With one draw per query, a query has been classified on a non-zero score.
C5_Witness ==
    /\ n_samples = 1 /\ pc = "loop" /\ i = pred_low + 1
    /\ CounterSum = 1 /\ prediction[1] # 0 /\ Len(draws) = 1

\* C6 as stated: no zero denominator in the derived metrics propagates as a
\* raw arithmetic fault; each is guarded and reported as undefined.
C6_MetricsGuarded ==
    pc = "end" => metrics.status \in {"ok", "undefined metric"}

(***************************************************************************)
(* Properties of overlaps and cost (specification SpecCost).               *)
(***************************************************************************)
\* The mean of the overlap over all index pairs of X1 and X2, summed over
\* the set of pairs in no particular order.
MeanRef(X1, X2) ==
    LET RECURSIVE SumPairs(_)
        SumPairs(S) ==
            IF S = {} THEN RInt(0)
            ELSE LET p == CHOOSE p \in S : TRUE
                 IN  RAdd(RefOverlap(X1[p[1]], X2[p[2]]), SumPairs(S \ {p}))
    IN  RDivInt(SumPairs((1..Len(X1)) \X (1..Len(X2))), Len(X1) * Len(X2))

Half == <<1, 2>>

CostRef(Ab, Bb) ==
    RSub(RInt(1),
         RMul(Half, RSub(RAdd(MeanRef(Ab, Ab), MeanRef(Bb, Bb)),
                         RScale(2, MeanRef(Ab, Bb)))))

Count(x, q) == Cardinality({k \in 1..Len(q) : q[k] = x})

SameBag(q1, q2) ==
    /\ Len(q1) = Len(q2)
    /\ \A x \in Range(q1) \cup Range(q2) : Count(x, q1) = Count(x, q2)

\* Every batch of 1..n rows of tbl.
BatchesOver(tbl, n) ==
    UNION {{[k \in 1..m |-> tbl[sel[k]]] : sel \in [1..m -> 1..Len(tbl)]} :
           m \in 1..n}

\* C7: cost returns 1 - 0.5 * (aa + bb - 2 * ab) with aa, bb, ab the mean
\* overlaps within A, within B and between A and B, unclamped; a second
\* call with the same arguments returns the same value.
C7_CostFormula ==
    cost_out # <<>> =>
        /\ cost_out = CostRef(A_batch, B_batch)
        /\ cost_prev # <<>> =>
              (cost_prev[1] = cost_args /\ cost_prev[2] = cost_out)

\* cost was evaluated twice on a batch of two different class-A rows, and
\* its value lies strictly between 0 and 1.
C7_Witness ==
    /\ cost_out # <<>> /\ cost_prev # <<>>
    /\ Len(A_batch) = 2 /\ A_batch[1] # A_batch[2]
    /\ RLt(RInt(0), cost_out) /\ RLt(cost_out, RInt(1))

\* C8 as stated: cost depends only on the sets of rows in A and B: any two
\* batches with the same sets of rows, repeated rows included, cost the
\* same.
C8_CostFunctionOfSets ==
    cost_out # <<>> =>
        \A A2 \in BatchesOver(A, MaxBatch + 1), B2 \in BatchesOver(B, MaxBatch + 1) :
            (Range(A2) = Range(A_batch) /\ Range(B2) = Range(B_batch))
               => cost(pars, A2, B2) = cost_out

\* C8 amended: cost does not depend on the order in which A and B are
\* enumerated: it is a function of the multisets of rows (each row with
\* its number of occurrences), so any reordering of the two batches costs
\* the same.
C8_CostPermutationInvariant ==
    cost_out # <<>> =>
        \A A2 \in BatchesOver(A, Len(A_batch)), B2 \in BatchesOver(B, Len(B_batch)) :
            (SameBag(A2, A_batch) /\ SameBag(B2, B_batch))
               => cost(pars, A2, B2) = cost_out

\* cost was evaluated on batches of two different rows each, whose rows
\* overlap differently with one another, so that the order of summation
\* is not immaterial term by term.
C8_Witness ==
    /\ cost_out # <<>>
    /\ Len(A_batch) = 2 /\ A_batch[1] # A_batch[2]
    /\ Len(B_batch) = 2 /\ B_batch[1] # B_batch[2]
    /\ RefOverlap(A_batch[1], B_batch[1]) # RefOverlap(A_batch[2], B_batch[1])
    /\ RefOverlap(A_batch[1], A_batch[2]) # RInt(1)

\* The three overlaps calls of the last cost evaluation.
OverlapCalls == << <<A_batch, A_batch>>, <<B_batch, B_batch>>, <<A_batch, B_batch>> >>

\* C9: overlaps(weights, X1, X2) calls swap_test len(X1) * len(X2) times,
\* once for every ordered pair of positions (equal positions included), on
\* the two rows projected by the linear layer of weights, and returns the
\* sum of the results divided by len(X1) * len(X2).
C9_MeanOverAllPairs ==
    ov_out # <<>> =>
        \A c \in 1..3 :
            LET X1 == OverlapCalls[c][1]
                X2 == OverlapCalls[c][2]
                log == swap_log[c]
            IN  /\ Len(log) = Len(X1) * Len(X2)
                /\ {<<log[k].i, log[k].j>> : k \in 1..Len(log)}
                      = (1..Len(X1)) \X (1..Len(X2))
                /\ \A k \in 1..Len(log) :
                      /\ log[k].q = pars[2]
                      /\ log[k].w_x1 = MatVec(pars[1], X1[log[k].i])
                      /\ log[k].w_x2 = MatVec(pars[1], X2[log[k].j])
                /\ ov_out[c] = MeanRef(X1, X2)

\* The mean overlap of a batch of two different rows with itself lies
\* strictly between the overlap of the two rows and 1: the self-pairs and
\* the cross pairs both entered the mean.
C9_Witness ==
    /\ ov_out # <<>>
    /\ Len(A_batch) = 2 /\ A_batch[1] # A_batch[2]
    /\ Len(swap_log[1]) = 4
    /\ RLt(RefOverlap(A_batch[1], A_batch[2]), ov_out[1])
    /\ RLt(ov_out[1], RInt(1))

(***************************************************************************)
(* Properties of the embedding ansatz (specification SpecEmbed).           *)
(***************************************************************************)
GatesAt(g) == {p \in 1..Len(circuit) : circuit[p].gate = g}

\* C10: for L weight rows and n register positions the circuit is L blocks
\* of [n feature rotations RX keyed by features[idx]; the coupling CNOT, RZ
\* of weights[l, 0], CNOT; n local rotations RY of weights[l, idx + 1]],
\* then n feature rotations once more: L + 1 feature-encoding layers, L
\* couplings, every weight entry read by exactly one gate, and no gate
\* outside the register.
C10_EmbeddingLayout ==
    circuit # <<>> =>
        LET L == Len(e_weights)
            n == Len(e_wires)
            blk == 2 * n + 3
            rx(k) == Gate("RX", <<e_wires[k]>>, e_features[k],
                          "features", 0, k - 1)
            cnot == Gate("CNOT", <<e_wires[2], e_wires[1]>>, 0, "none", 0, 0)
        IN  /\ Len(circuit) = L * blk + n
            /\ \A l \in 0..(L - 1) :
                  /\ \A k \in 1..n : circuit[l * blk + k] = rx(k)
                  /\ circuit[l * blk + n + 1] = cnot
                  /\ circuit[l * blk + n + 2] =
                        Gate("RZ", <<e_wires[1]>>, e_weights[l + 1][1],
                             "weights", l, 0)
                  /\ circuit[l * blk + n + 3] = cnot
                  /\ \A k \in 1..n :
                        circuit[l * blk + n + 3 + k] =
                           Gate("RY", <<e_wires[k]>>, e_weights[l + 1][k + 1],
                                "weights", l, k)
            /\ \A k \in 1..n : circuit[L * blk + k] = rx(k)
            /\ Cardinality(GatesAt("RX")) = (L + 1) * n
            /\ Cardinality(GatesAt("RZ")) = L
            /\ Cardinality(GatesAt("RY")) = L * n
            /\ \A l \in 0..(L - 1), c \in 0..n :
                  Cardinality({p \in 1..Len(circuit) :
                                  circuit[p].ref = <<"weights", l, c>>}) = 1
            /\ \A p \in 1..Len(circuit) :
                  Range(circuit[p].wires) \subseteq Range(e_wires)

\* The embedding of the second register of the swap test, [3, 4], with two
\* weight rows, has been queued.
C10_Witness ==
    /\ circuit # <<>>
    /\ Len(e_weights) = 2 /\ e_wires = <<3, 4>>
    /\ Len(circuit) = 16

(***************************************************************************)
(* Properties of the training cells (specifications SpecTrain and          *)
(* SpecTrainFair).                                                         *)
(***************************************************************************)
\* Uninitialized, Initialized(params), Stepping, Stopped.
Lifecycle ==
    CASE t_pc = "uninit" -> "Uninitialized"
      [] t_pc = "init" -> "Initialized"
      [] t_pc \in {"loop", "step"} -> "Stepping"
      [] OTHER -> "Stopped"

LifecycleMoves ==
    { <<"Uninitialized", "Initialized">>, <<"Initialized", "Stepping">>,
      <<"Stepping", "Stepping">>, <<"Stepping", "Stopped">>,
      <<"Stopped", "Stopped">> }

\* The bundle has been replaced once per iteration begun and finished, the
\* step count never passes the configured number, and the trainer is
\* stopped only with exactly that many steps made.
StepCountInv ==
    /\ n_steps = t_i
    /\ n_steps <= NumIterations
    /\ Lifecycle = "Stopped" => n_steps = NumIterations
    /\ Lifecycle \in {"Uninitialized", "Initialized"} => n_steps = 0

\* One optimizer step per iteration, and the loop is left only when the
\* configured number of steps has been made.
StepCountMove ==
    /\ <<Lifecycle, Lifecycle'>> \in LifecycleMoves
    /\ n_steps' \in {n_steps, n_steps + 1}
    /\ (t_pc = "step" /\ t_pc' = "loop") => n_steps' = n_steps + 1
    /\ (Lifecycle = "Stepping" /\ Lifecycle' = "Stopped")
          => n_steps = NumIterations

\* C11: the trainer goes Uninitialized -> Initialized -> Stepping* ->
\* Stopped; it makes exactly NumIterations (400) optimizer steps, one per
\* iteration, the bundle being replaced in each, and then stops; it always
\* stops, and nothing ends the run earlier or extends it.
C11_FixedStepCount ==
    /\ [][StepCountMove]_vars
    /\ []StepCountInv
    /\ <>(t_pc = "stopped")

C11_Witness == t_pc = "stopped" /\ n_steps = NumIterations /\ t_i = n_steps

\* C12: a step binds pars to the bundle the optimizer returns and leaves
\* the object init_pars names alone: once cell 8 has run, init_pars keeps
\* the values it was created with through every later cell, so whatever
\* reads init_pars after training reads the untrained parameters.
C12_InitParsKept ==
    [][/\ t_pc # "uninit" => init_pars' = init_pars
       /\ n_steps' # n_steps => pars' \in Bundles /\ closure' # <<>>]_vars

C12_Witness ==
    /\ t_pc = "stopped"
    /\ pars # init_pars
    /\ init_pars \in Bundles

\* numpy's shape of a matrix kept as a sequence of rows.
Shape(M) == <<Len(M), Len(M[1])>>

\* The bundles a name is bound to in this state.
BoundBundles == {b \in {init_pars, pars} : b # <<>>}

\* C13 as stated: in every state the projection matrix has shape
\* (2, n_features) and the weight tensor has shape (L, n_features + 1).
C13_ShapesAsClaimed ==
    \A b \in BoundBundles :
        /\ Shape(b[1]) = <<2, n_features>>
        /\ Shape(b[2]) = <<QuantumShape[1], n_features + 1>>

\* C13, amended: in every state the projection matrix has shape
\* (n_features, d), d being the number of columns of the feature tables
\* (2 by 4 here), and the weight tensor has shape (L, n_features + 1)
\* (4 by 3 here); no step changes either shape.
C13_ShapesKept ==
    \A b \in BoundBundles :
        /\ Shape(b[1]) = <<n_features, Len(X[1])>>
        /\ Shape(b[2]) = <<QuantumShape[1], n_features + 1>>

C13_Witness ==
    /\ n_steps > 1
    /\ pars # init_pars
    /\ Shape(pars[1]) = ClassicalShape
    /\ Shape(pars[2]) = QuantumShape

\* The training rows carrying label lab, and how many there are.
TrainRows(lab) == {X[r] : r \in {q \in 1..Len(X) : Y[q] = lab}}

TrainCount(lab) == Cardinality({q \in 1..Len(X) : Y[q] = lab})

\* C17: in every iteration batch_size indices are drawn for class A and
\* batch_size for class B, every index within its class; A_batch holds the
\* class-A training rows at the drawn indices and B_batch the class-B
\* ones, never a row of the other class or of the validation tables; and
\* the cost handed to the optimizer in that iteration is closed over
\* exactly these two batches.
C17_BatchesFromOwnClass ==
    selectA # <<>> =>
        /\ Len(selectA) = batch_size /\ Len(selectB) = batch_size
        /\ Len(A_batch) = batch_size /\ Len(B_batch) = batch_size
        /\ \A k \in 1..batch_size :
              /\ selectA[k] \in 0..(TrainCount(-1) - 1)
              /\ selectB[k] \in 0..(TrainCount(1) - 1)
              /\ A_batch[k] = ClassRows(X, Y, -1)[selectA[k] + 1]
              /\ B_batch[k] = ClassRows(X, Y, 1)[selectB[k] + 1]
              /\ A_batch[k] \in TrainRows(-1) \ TrainRows(1)
              /\ B_batch[k] \in TrainRows(1) \ TrainRows(-1)
              /\ A_batch[k] \notin Range(X_val)
              /\ B_batch[k] \notin Range(X_val)
        /\ closure # <<>> => closure = <<A_batch, B_batch>>

\* A batch with one row drawn twice, stepped on.
C17_Witness ==
    /\ closure = <<A_batch, B_batch>>
    /\ batch_size > 1
    /\ selectA[1] = selectA[2]
    /\ n_steps > 1

\* The lines a file holds when it was written from the rows of M.
RowsOf(M) == [r \in 1..Len(M) |-> <<M[r], "\n">>]

\* Before cell 10 the files are not written; after it thetas.txt holds one
\* line per row of the weight tensor of the final bundle and x1x2.txt one
\* line per row of its projection matrix.
FilesInv ==
    /\ t_pc # "saved" => thetas_txt = <<>> /\ x1x2_txt = <<>>
    /\ t_pc = "saved" =>
          /\ n_steps = NumIterations
          /\ thetas_txt = RowsOf(pars[2])
          /\ x1x2_txt = RowsOf(pars[1])
          /\ Len(thetas_txt) = QuantumShape[1]
          /\ Len(x1x2_txt) = ClassicalShape[1]

\* A bundle, once bound, is never unbound; pars changes in every step and
\* never after the last one.
BundleMove ==
    /\ init_pars # <<>> => init_pars' # <<>>
    /\ pars # <<>> => pars' # <<>>
    /\ (init_pars = <<>> /\ init_pars' # <<>>) => t_pc = "uninit"
    /\ t_pc \in {"stopped", "saved"} => pars' = pars

\* C18: the bundle is created once, rebound in every step, and written to
\* the two files only after the last step: the files hold the final
\* bundle, one line per row of the weight tensor in thetas.txt and one per
\* row of the projection matrix in x1x2.txt, and the bundle is never
\* deleted or reset.
C18_FilesHoldFinalBundle == []FilesInv /\ [][BundleMove]_vars

\* Saved files of a final bundle that differs from the initial one.
C18_Witness ==
    /\ t_pc = "saved"
    /\ pars # init_pars
    /\ thetas_txt = RowsOf(pars[2])
    /\ thetas_txt # RowsOf(init_pars[2])
    /\ Len(thetas_txt) > Len(x1x2_txt)

(***************************************************************************)
(* Two seeded runs (specification SpecTwoRuns).                            *)
(***************************************************************************)
\* C14: with the generator seeded, two runs of the training cells over the
\* same tables are at every cell in the same state: the same initial
\* bundle, the same batches in every iteration, the same bundle after
\* every step, and so the same final bundle.
C14_SeededRunsAgree ==
    /\ run2.t_pc = t_pc /\ run2.t_i = t_i
    /\ run2.rng = rng
    /\ run2.init_pars = init_pars
    /\ run2.selectA = selectA /\ run2.selectB = selectB
    /\ run2.A_batch = A_batch /\ run2.B_batch = B_batch
    /\ run2.accumulation = accumulation
    /\ run2.pars = pars

C14_Witness ==
    /\ t_pc = "stopped" /\ run2.t_pc = "stopped"
    /\ n_steps = NumIterations
    /\ pars # init_pars
    /\ run2.pars = pars

(***************************************************************************)
(* Properties of the swap test (specification SpecSwap).                   *)
(***************************************************************************)
\* C15: the overlap of a row with itself is 1, and every overlap lies in
\* [0, 1].
C15_SelfOverlapIsOne ==
    sw_out # <<>> =>
        /\ RLe(RInt(0), sw_out) /\ RLe(sw_out, RInt(1))
        /\ sw_x1 = sw_x2 => sw_out = RInt(1)

C15_Witness ==
    /\ sw_out = RInt(1)
    /\ sw_x1 = sw_x2
    /\ MatVec(sw_weights[1], sw_x1) # <<0, 0>>

\* The queued operations of a kind, in order.
OpsOf(kind) == SelectSeq(sw_circuit, LAMBDA g : g.gate = kind)

\* Number of operations one embedding queues.
EmbeddingLen == (Len(sw_circuit) - n_features - 2) \div 2

\* The wires the operations from place lo to place hi act on.
WiresOf(lo, hi) ==
    UNION {Range(sw_circuit[n].wires) : n \in lo..hi}

\* C19: the first point is embedded on positions 1..n_features and the
\* second on n_features+1..2*n_features, two disjoint registers without
\* position 0; the controlled swaps sit between two Hadamards on position
\* 0, are all controlled on position 0, and the k-th (k from 0) swaps
\* position k+1 with position n_features+k+1, so every register position
\* is swapped exactly once; every position used is below n_qubits.
C19_SwapTestWiring ==
    sw_circuit # <<>> =>
        LET ne == EmbeddingLen
            cs == OpsOf("CSWAP")
            first == WiresOf(1, ne)
            second == WiresOf(ne + 1, 2 * ne)
        IN  /\ first = 1..n_features
            /\ second = (n_features + 1)..(2 * n_features)
            /\ first \cap second = {}
            /\ 0 \notin first \cup second
            /\ sw_circuit[2 * ne + 1].gate = "Hadamard"
            /\ sw_circuit[2 * ne + 1].wires = <<0>>
            /\ sw_circuit[Len(sw_circuit)].gate = "Hadamard"
            /\ sw_circuit[Len(sw_circuit)].wires = <<0>>
            /\ Len(cs) = n_features
            /\ \A n \in (2 * ne + 2)..(Len(sw_circuit) - 1) :
                  sw_circuit[n].gate = "CSWAP"
            /\ \A k \in 0..(n_features - 1) :
                  cs[k + 1].wires = <<0, k + 1, n_features + k + 1>>
            /\ \A p \in first \cup second :
                  Cardinality({n \in 1..Len(cs) :
                                  p \in {cs[n].wires[2], cs[n].wires[3]}}) = 1
            /\ \A n \in 1..Len(sw_circuit) :
                  \A p \in Range(sw_circuit[n].wires) : p >= 0 /\ p < n_qubits

\* A swap test of two different points, run to its last operation.
C19_Witness ==
    /\ sw_circuit # <<>>
    /\ sw_pos = Len(sw_circuit)
    /\ sw_x1 # sw_x2
    /\ Len(OpsOf("CSWAP")) = n_features

(***************************************************************************)
(* Rows of the wrong length (specification SpecDim).                       *)
(***************************************************************************)
\* Some row handed to overlaps has not the length the projection needs.
Malformed ==
    \E x \in Range(ev_X1) \cup Range(ev_X2) : Len(x) # Len(ev_weights[1][1])

\* C16: when a row handed to overlaps has the wrong length, the call ends
\* in ValueError at its first pair: no swap test has been run, no value is
\* returned, and pars is still the bundle the call was given.
C16_MismatchFailsFast ==
    (ev_status # "idle" /\ Malformed) =>
        /\ ev_status \in {"running", "ValueError"}
        /\ ev_idx = 0
        /\ ev_log = <<>>
        /\ ev_out = <<>>
        /\ pars = ev_weights

C16_Witness ==
    /\ ev_status = "ValueError"
    /\ Len(ev_X1) > 1
    /\ \E x \in Range(ev_X2) : Len(x) > Len(ev_weights[1][1])
    /\ \A x \in Range(ev_X1) : Len(x) = Len(ev_weights[1][1])
====
